---- MODULE Spec2Model ----
(***************************************************************************)
(* Model of the wattwatchers API clients: the rate-limited REST transport  *)
(* (rest_api_client.py), the interval batcher and batched energy loader    *)
(* (public_api_client.py) and the time-range history operations            *)
(* (ops_api_client.py).                                                    *)
(*                                                                         *)
(* Time is counted in ticks, TicksPerSec ticks to the second, so that the  *)
(* sub-second elapsed times that pendulum's in_seconds() truncates can be  *)
(* told apart from whole seconds.                                          *)
(***************************************************************************)
EXTENDS Integers, Sequences, FiniteSets

\* ------------------------------------------------------------------ bounds
\* clock resolution: ticks per second
TicksPerSec == 2
\* the horizon of the wall clock, in ticks
MaxTime == 4
\* range of the timestamps and windows the batcher is swept over
MaxT == 6
MaxW == 4
\* the most requests a long load over a wide range is let to need
MaxIntervals == 3

\* ---------------------------------------------------------------- helpers
Max(a, b) == IF a >= b THEN a ELSE b
Min(a, b) == IF a <= b THEN a ELSE b
Abs(a) == IF a < 0 THEN -a ELSE a

\* ------------------------------------------------------- python values
\* None, list and dict values as they come out of resp.json()
PyNone == [t |-> "None"]
PyList(s) == [t |-> "list", items |-> s]
\* a dict is its set of <<key, value>> pairs
PyDict(d) == [t |-> "dict", d |-> d]

\* dict.get(key, default)
dict_get(v, key, default) ==
    IF \E p \in v.d : p[1] = key
    THEN (CHOOSE p \in v.d : p[1] = key)[2]
    ELSE default

\* the keys of a dict, in iteration order (dicts here hold at most one key)
dict_keys(v) ==
    IF v.d = {} THEN <<>> ELSE <<(CHOOSE p \in v.d : TRUE)[1]>>

\* ---------------------------------------------------------- rate limiter
\* self._last_request_time is None until the first request completes
NoneTime == -1

\* requests_per_sec_max values whose period 1/R is a whole number of ticks
Rates == {r \in 1..TicksPerSec : TicksPerSec % r = 0}

\* pendulum Duration.in_seconds(): the duration truncated to whole seconds
in_seconds(d) == d \div TicksPerSec

\* the wait computed with min in place of max: never positive
wait_duration_min(lastT, nowT, R) ==
    Min(0, (TicksPerSec \div R) - in_seconds(Abs(nowT - lastT)) * TicksPerSec)

\* max(0, 1 / requests_per_sec_max - time_since_last_request), in ticks
wait_duration(lastT, nowT, R) ==
    Max(0, (TicksPerSec \div R) - in_seconds(Abs(nowT - lastT)) * TicksPerSec)

\* the time _throttler passes to time.sleep (0: it does not sleep)
_throttler(lastT, nowT, R) ==
    IF lastT = NoneTime THEN 0 ELSE wait_duration(lastT, nowT, R)

\* ------------------------------------------------------------- transport
Statuses == {200, 204, 404}

\* response bodies: empty, JSON documents, and a body that is not JSON
Bodies == {"", "null", "[1]", "[2,3]", "{}", "{\"message\":\"not found\"}", "<html>"}

\* what the server or the network does with one request
Responses ==
    [kind : {"response"}, status : Statuses, text : Bodies]
        \cup {[kind |-> "network_error", status |-> 0, text |-> ""]}

\* resp.json(): json.loads of the body text; ok is FALSE on JSONDecodeError
json_loads(text) ==
    CASE text = "null" -> [ok |-> TRUE, v |-> PyNone]
      [] text = "[1]" -> [ok |-> TRUE, v |-> PyList(<<1>>)]
      [] text = "[2,3]" -> [ok |-> TRUE, v |-> PyList(<<2, 3>>)]
      [] text = "{}" -> [ok |-> TRUE, v |-> PyDict({})]
      [] text = "{\"message\":\"not found\"}" ->
            [ok |-> TRUE, v |-> PyDict({<<"message", "not found">>})]
      [] OTHER -> [ok |-> FALSE, v |-> PyNone]

\* success taken to be 200 alone
is_success_200_only(status) == status = 200

\* resp.raise_for_status() raises unless the status is 2xx
is_success(status) == 200 <= status /\ status <= 299

\* RestError(message, request, response): request is a required argument
RestError(status, message, hasRequest, hasResponse) ==
    IF hasRequest
    THEN [kind |-> "return", value |-> PyNone, exc |-> "",
          error |-> [t |-> "RestError", status |-> status,
                     message |-> message, response |-> hasResponse]]
    ELSE [kind |-> "raise", value |-> PyNone, exc |-> "TypeError",
          error |-> PyNone]

Return(value, error) ==
    [kind |-> "return", value |-> value, error |-> error, exc |-> ""]

Raise(exc) ==
    [kind |-> "raise", value |-> PyNone, error |-> PyNone, exc |-> exc]

\* request handing back the parsed error body next to the error
request_keeps_body(resp) ==
    IF resp.kind = "network_error"
    THEN RestError(0, "", TRUE, FALSE)
    ELSE IF is_success(resp.status)
    THEN IF Len(resp.text) = 0
         THEN Return(PyNone, PyNone)
         ELSE IF json_loads(resp.text).ok
              THEN Return(json_loads(resp.text).v, PyNone)
              ELSE Raise("JSONDecodeError")
    ELSE LET body == json_loads(resp.text) IN
         IF ~body.ok THEN Raise("JSONDecodeError")
         ELSE IF body.v.t # "dict" THEN Raise("AttributeError")
         ELSE [RestError(resp.status, dict_get(body.v, "message", ""), TRUE, TRUE)
                    EXCEPT !.value = body.v]

\* the outcome of RestAPIClient.request for what the server answered
request(resp) ==
    IF resp.kind = "network_error"
    THEN RestError(0, "", TRUE, FALSE)
    ELSE IF is_success(resp.status)
    THEN IF Len(resp.text) = 0
         THEN Return(PyNone, PyNone)
         ELSE IF json_loads(resp.text).ok
              THEN Return(json_loads(resp.text).v, PyNone)
              ELSE Raise("JSONDecodeError")
    ELSE LET body == json_loads(resp.text) IN
         IF ~body.ok THEN Raise("JSONDecodeError")
         ELSE IF body.v.t # "dict" THEN Raise("AttributeError")
         ELSE RestError(resp.status, dict_get(body.v, "message", ""), TRUE, TRUE)

\* ------------------------------------------------------ interval batcher
TimeInterval(timestamp_start, timestamp_end) ==
    [timestamp_start |-> timestamp_start, timestamp_end |-> timestamp_end]

\* range(start, stop, step) for a positive step
RECURSIVE py_range(_, _, _)
py_range(start, stop, step) ==
    IF start >= stop THEN <<>>
    ELSE <<start>> \o py_range(start + step, stop, step)

\* the comprehension with the last interval left unclamped
intervals_for_unclamped(timestamp_start, timestamp_end, batch_interval) ==
    LET starts == py_range(timestamp_start, timestamp_end, batch_interval)
    IN  [i \in 1..Len(starts) |->
            TimeInterval(starts[i], starts[i] + batch_interval)]

\* [TimeInterval(b, min(b + batch_interval, end)) for b in range(start, end, batch_interval)]
intervals_for(timestamp_start, timestamp_end, batch_interval) ==
    LET starts == py_range(timestamp_start, timestamp_end, batch_interval)
    IN  [i \in 1..Len(starts) |->
            TimeInterval(starts[i], Min(starts[i] + batch_interval, timestamp_end))]

Granularities == {"5m", "15m", "30m", "hour", "day", "week", "month"}

\* what a caller can pass as granularity: a member of Granularity, None, a
\* member of another Enum ("other"), or the plain string "5m" ("text")
GranularityArgs == Granularities \cup {"None", "other", "text"}

\* granularity.value: None is not asked for it, a str has none
has_value(granularity) == granularity \in Granularities \cup {"other"}

\* the rows for 15m and 30m exchanged
_max_interval_for_granularity_swapped(granularity) ==
    (CASE granularity = "5m" -> 7
       [] granularity = "15m" -> 31
       [] granularity = "30m" -> 14
       [] granularity = "hour" -> 90
       [] granularity = "day" -> 3 * 365
       [] granularity = "week" -> 5 * 365
       [] granularity = "month" -> 10 * 365
       [] OTHER -> 7) * 24 * 3600

\* MAX_INTERVALS_DAYS.get(granularity, 7) * 24 * 3600
_max_interval_for_granularity(granularity) ==
    (CASE granularity = "5m" -> 7
       [] granularity = "15m" -> 14
       [] granularity = "30m" -> 31
       [] granularity = "hour" -> 90
       [] granularity = "day" -> 3 * 365
       [] granularity = "week" -> 5 * 365
       [] granularity = "month" -> 10 * 365
       [] OTHER -> 7) * 24 * 3600

_calculate_intervals_for(granularity, timestamp_start, timestamp_end) ==
    intervals_for(timestamp_start, timestamp_end,
                  _max_interval_for_granularity(granularity))

\* load_short_energy: maximum request interval for SE is 12 hours
max_interval == 12 * 3600

short_energy_intervals(timestamp_start, timestamp_end) ==
    intervals_for(timestamp_start, timestamp_end, max_interval)

\* --------------------------------------------------------- batched loader
Pending ==
    [kind |-> "pending", value |-> PyNone, error |-> PyNone, exc |-> ""]

\* the loop going on to the next interval after an error
_load_energy_step_continue(energy_data, r, isLast) ==
    IF r.kind = "raise"
    THEN [stop |-> TRUE, data |-> energy_data, out |-> r]
    ELSE IF r.error # PyNone
    THEN [stop |-> isLast, data |-> energy_data,
          out |-> IF isLast THEN Return(PyNone, r.error) ELSE Pending]
    ELSE IF r.value.t = "None"
    THEN [stop |-> TRUE, data |-> energy_data, out |-> Raise("TypeError")]
    ELSE LET items == IF r.value.t = "list" THEN r.value.items
                      ELSE dict_keys(r.value)
             extended == energy_data \o items
         IN  [stop |-> isLast, data |-> extended,
              out |-> IF isLast THEN Return(PyList(extended), PyNone)
                      ELSE Pending]

\* the loop putting each result in front of the aggregate
_load_energy_step_prepend(energy_data, r, isLast) ==
    IF r.kind = "raise"
    THEN [stop |-> TRUE, data |-> energy_data, out |-> r]
    ELSE IF r.error # PyNone
    THEN [stop |-> TRUE, data |-> energy_data, out |-> Return(PyNone, r.error)]
    ELSE IF r.value.t = "None"
    THEN [stop |-> TRUE, data |-> energy_data, out |-> Raise("TypeError")]
    ELSE LET items == IF r.value.t = "list" THEN r.value.items
                      ELSE dict_keys(r.value)
             extended == items \o energy_data
         IN  [stop |-> isLast, data |-> extended,
              out |-> IF isLast THEN Return(PyList(extended), PyNone)
                      ELSE Pending]

\* one pass of the loop of _load_energy over the transport's outcome r:
\* whether the loop ends, the aggregate afterwards, and what is returned
_load_energy_step(energy_data, r, isLast) ==
    IF r.kind = "raise"
    THEN [stop |-> TRUE, data |-> energy_data, out |-> r]
    ELSE IF r.error # PyNone
    THEN [stop |-> TRUE, data |-> energy_data, out |-> Return(PyNone, r.error)]
    ELSE IF r.value.t = "None"
    THEN [stop |-> TRUE, data |-> energy_data, out |-> Raise("TypeError")]
    ELSE LET items == IF r.value.t = "list" THEN r.value.items
                      ELSE dict_keys(r.value)
             extended == energy_data \o items
         IN  [stop |-> isLast, data |-> extended,
              out |-> IF isLast THEN Return(PyList(extended), PyNone)
                      ELSE Pending]

\* ------------------------------------------------------ history operations
\* a timestamp argument left as None
NoneTs == -1

Proceed ==
    [kind |-> "proceed", value |-> PyNone, error |-> PyNone, exc |-> ""]

\* the argument checks of get_status_history and get_config_audit_log_history
history_check(timestamp_start, timestamp_end) ==
    IF timestamp_start = NoneTs /\ timestamp_end = NoneTs
    THEN RestError(0, "You need to define at least one of the timestamp_start and timestamp_end params.",
                   FALSE, FALSE)
    ELSE IF /\ timestamp_start # NoneTs
            /\ timestamp_end # NoneTs
            /\ timestamp_start > timestamp_end
    THEN RestError(0, "timestamp_start needs to be before timestamp_end",
                   FALSE, FALSE)
    ELSE Proceed

\* ------------------------------------------------------------------ state
Clients == {"pub", "ops"}

\* the time ranges the callers pass: to load_long_energy, to
\* load_short_energy and to the history operations
LongTs == {0, 700000}
ShortTs == {0, 43200, 100000}
HistRanges ==
    {<<NoneTs, NoneTs>>, <<100000, 0>>, <<0, 100000>>, <<NoneTs, 0>>}

\* an exchange ends within the tick it starts in, or takes a tick
Durations == {0, 1}

\* one response for each way through request: a parsed value, an HTTP status
\* error, a network failure, a body that does not parse
TimingResponses ==
    {[kind |-> "response", status |-> 200, text |-> "[1]"],
     [kind |-> "response", status |-> 404, text |-> "{}"],
     [kind |-> "network_error", status |-> 0, text |-> ""],
     [kind |-> "response", status |-> 200, text |-> "<html>"]}

VARIABLES
    now,          \* the wall clock, in ticks
    rate,         \* rate[c]: _requests_per_sec_max of client c
    last,         \* last[c]: _last_request_time of client c
    cnt,          \* cnt[c]: HTTP requests issued through c so far
    first,        \* first[c]: when c's first request was issued
    call,         \* the most recent transport call: its timing and response
    pc,           \* "idle", or "loading" inside the loop of _load_energy
    intervals,    \* _load_energy: the intervals to load
    granularity,  \* _load_energy: the granularity asked for, or "None"
    energy_data,  \* _load_energy: the aggregate so far
    loadLog,      \* _load_energy: the params and outcome of each request issued
    ret,          \* the operation in progress or last finished, and its outcome
    split_in,     \* batcher sweep: the arguments
    split_out     \* batcher sweep: the intervals built

clock == <<now, last, cnt, first, call>>
loader == <<pc, intervals, granularity, energy_data, loadLog>>
sweep == <<split_in, split_out>>
vars == <<now, rate, last, cnt, first, call, pc, intervals, granularity, energy_data,
          loadLog, ret, split_in, split_out>>

Outcome(op, range, sent, r) ==
    [op |-> op, range |-> range, sent |-> sent, kind |-> r.kind,
     value |-> r.value, error |-> r.error, exc |-> r.exc]

NoCall ==
    [client |-> "", prev |-> NoneTime, at |-> 0, slept |-> 0,
     resp |-> [kind |-> "none", status |-> 0, text |-> ""]]

SweepIdle ==
    /\ split_in = [mode |-> "none", start |-> 0, end |-> 0, w |-> 1, g |-> ""]
    /\ split_out = [done |-> FALSE, intervals |-> <<>>]

ClientsInit ==
    /\ now = 0
    /\ rate \in [Clients -> Rates]
    /\ last = [c \in Clients |-> NoneTime]
    /\ cnt = [c \in Clients |-> 0]
    /\ first = [c \in Clients |-> 0]
    /\ call = NoCall
    /\ pc = "idle"
    /\ intervals = <<>>
    /\ granularity = "None"
    /\ energy_data = <<>>
    /\ loadLog = <<>>
    /\ ret = Outcome("none", "", 0, Pending)

Init == ClientsInit /\ SweepIdle

\* ------------------------------------------------------------- operations
\* finally: self._last_request_time = pendulum.now()
last_request_time_after(old, done) == done

\* the timestamp kept once for all instances, as a class attribute would be
Transport_shared_timestamp(c, resp, dur) ==
    LET slept == _throttler(last[c], now, rate[c])
        issued == now + slept
        done == issued + dur
    IN  /\ done <= MaxTime
        /\ now' = done
        /\ last' = [x \in Clients |-> last_request_time_after(last[x], done)]
        /\ cnt' = [cnt EXCEPT ![c] = @ + 1]
        /\ first' = [first EXCEPT ![c] = IF cnt[c] = 0 THEN issued ELSE @]
        /\ call' = [client |-> c, prev |-> last[c], at |-> now,
                    slept |-> slept, resp |-> resp]

\* one pass through RestAPIClient.request on client c: the throttler's sleep,
\* the HTTP exchange, the timestamp. time.sleep returns no sooner than asked;
\* dur is the time from then to the end of the exchange.
Transport(c, resp, dur) ==
    LET slept == _throttler(last[c], now, rate[c])
        issued == now + slept
        done == issued + dur
    IN  /\ done <= MaxTime
        /\ now' = done
        /\ last' = [last EXCEPT ![c] = last_request_time_after(@, done)]
        /\ cnt' = [cnt EXCEPT ![c] = @ + 1]
        /\ first' = [first EXCEPT ![c] = IF cnt[c] = 0 THEN issued ELSE @]
        /\ call' = [client |-> c, prev |-> last[c], at |-> now,
                    slept |-> slept, resp |-> resp]

\* time passes between operations
Tick ==
    /\ pc = "idle"
    /\ now < MaxTime
    /\ now' = now + 1
    /\ UNCHANGED <<rate, last, cnt, first, call, loader, ret, sweep>>

\* a single-request operation (get, post, patch ... and their wrappers)
\* through one of the clients cs, answered by one of the responses rs
RequestOn(cs, rs) ==
    \E c \in cs, resp \in rs, dur \in Durations :
        /\ pc = "idle"
        /\ Transport(c, resp, dur)
        /\ ret' = Outcome("request", "", 1, request(resp))
        /\ UNCHANGED <<rate, loader, sweep>>

\* "ok", or what is wrong with a time range: "none" given, or "inverted"
RangeClass(timestamp_start, timestamp_end) ==
    IF timestamp_start = NoneTs /\ timestamp_end = NoneTs THEN "none"
    ELSE IF timestamp_start = NoneTs \/ timestamp_end = NoneTs THEN "ok"
    ELSE IF timestamp_start > timestamp_end THEN "inverted"
    ELSE "ok"

\* OpsApiClient.get_status_history / get_config_audit_log_history
History(op) ==
    \E ts \in HistRanges :
        /\ pc = "idle"
        /\ IF history_check(ts[1], ts[2]).kind # "proceed"
           THEN /\ ret' = Outcome(op, RangeClass(ts[1], ts[2]), 0,
                                  history_check(ts[1], ts[2]))
                /\ UNCHANGED clock
           ELSE \E resp \in Responses, dur \in Durations :
                /\ Transport("ops", resp, dur)
                /\ ret' = Outcome(op, RangeClass(ts[1], ts[2]), 1,
                                  request(resp))
        /\ UNCHANGED <<rate, loader, sweep>>

GetStatusHistory == History("get_status_history")

GetConfigAuditLogHistory == History("get_config_audit_log_history")

OpsRequest == RequestOn({"ops"}, Responses)

\* _load_energy up to its first request: with no interval it returns at
\* once; with one, params is built first, and granularity.value of a
\* granularity that is not None and has no such attribute raises
StartLoad(op, range, g, ivs) ==
    /\ pc = "idle"
    /\ intervals' = ivs
    /\ granularity' = g
    /\ energy_data' = <<>>
    /\ loadLog' = <<>>
    /\ IF ivs = <<>>
       THEN /\ ret' = Outcome(op, range, 0, Return(PyList(<<>>), PyNone))
            /\ pc' = "idle"
       ELSE IF g # "None" /\ ~has_value(g)
       THEN /\ ret' = Outcome(op, range, 0, Raise("AttributeError"))
            /\ pc' = "idle"
       ELSE /\ ret' = Outcome(op, range, 0, Pending)
            /\ pc' = "loading"
    /\ UNCHANGED <<rate, clock, sweep>>

LoadLongEnergy ==
    \E s \in LongTs, e \in LongTs, g \in GranularityArgs :
        StartLoad("load_long_energy", RangeClass(s, e), g,
                  _calculate_intervals_for(g, s, e))

LoadShortEnergy ==
    \E s \in ShortTs, e \in ShortTs :
        StartLoad("load_short_energy", RangeClass(s, e), "None",
                  short_energy_intervals(s, e))

\* one iteration of the loop of _load_energy, answered from rs
LoadStepOn(rs) ==
    \E resp \in rs, dur \in Durations :
        LET k == Len(loadLog) + 1
            r == request(resp)
            step == _load_energy_step(energy_data, r, k = Len(intervals))
        IN  /\ pc = "loading"
            /\ Transport("pub", resp, dur)
            /\ loadLog' = Append(loadLog,
                    [fromTs |-> intervals[k].timestamp_start,
                     toTs |-> intervals[k].timestamp_end,
                     granularity |-> granularity,
                     result |-> r])
            /\ energy_data' = step.data
            /\ pc' = IF step.stop THEN "idle" ELSE "loading"
            /\ ret' = Outcome(ret.op, ret.range, k, step.out)
            /\ UNCHANGED <<rate, intervals, granularity, sweep>>

LoadStep == LoadStepOn(Responses)

\* the operations of the ops client, with the public client left alone
InitOps == Init /\ rate["pub"] = 1

Next ==
    \/ Tick
    \/ OpsRequest
    \/ GetStatusHistory
    \/ GetConfigAuditLogHistory

Spec == InitOps /\ [][Next]_vars

\* the batched loads of the public client, one after the other, with the
\* ops client left alone
InitPub == Init /\ rate["ops"] = 1

NextLoad ==
    \/ LoadLongEnergy
    \/ LoadShortEnergy
    \/ LoadStep

SpecLoad == InitPub /\ [][NextLoad]_vars

\* long loads over ranges that outgrow each granularity's window in turn
WideEnds ==
    {700000, 1300000, 2700000, 7800000, 94700000, 157700000, 315400000}

LoadLongWide ==
    \E e \in WideEnds, g \in GranularityArgs :
        /\ e <= MaxIntervals * _max_interval_for_granularity(g)
        /\ StartLoad("load_long_energy", RangeClass(0, e), g,
                     _calculate_intervals_for(g, 0, e))

WindowStep == LoadStepOn(TimingResponses)

NextWindows ==
    \/ LoadLongWide
    \/ LoadShortEnergy
    \/ WindowStep

SpecWindows == InitPub /\ [][NextWindows]_vars

\* requests through both clients, told apart by their timing alone
TimedRequest == RequestOn(Clients, TimingResponses)

NextTiming ==
    \/ Tick
    \/ TimedRequest

SpecTiming == Init /\ [][NextTiming]_vars

\* ------------------------------------------------------ the batcher swept
\* split(0, 25, 10), the worked example
SplitExample == [mode |-> "window", start |-> 0, end |-> 25, w |-> 10, g |-> ""]

SweepLongTs == {0, 604800, 700000, 1300000, 3000000}

SplitInputs ==
    [mode : {"window"}, start : -MaxT..MaxT, end : -MaxT..MaxT,
     w : 1..MaxW, g : {""}]
        \cup {SplitExample}
        \cup [mode : {"long"}, start : SweepLongTs, end : SweepLongTs,
              w : {0}, g : Granularities \cup {"other"}]
        \cup [mode : {"short"}, start : ShortTs, end : ShortTs,
              w : {0}, g : {""}]

InitSplit ==
    /\ ClientsInit
    /\ rate = [c \in Clients |-> 1]
    /\ split_in \in SplitInputs
    /\ split_out = [done |-> FALSE, intervals |-> <<>>]

Built(mode, ivs) ==
    /\ split_in.mode = mode
    /\ ~split_out.done
    /\ split_out' = [done |-> TRUE, intervals |-> ivs]
    /\ UNCHANGED <<rate, clock, loader, ret, split_in>>

\* the list comprehension, for a window given as such
SplitWindow ==
    Built("window", intervals_for(split_in.start, split_in.end, split_in.w))

SplitLong ==
    Built("long", _calculate_intervals_for(split_in.g, split_in.start,
                                           split_in.end))

SplitShort ==
    Built("short", short_energy_intervals(split_in.start, split_in.end))

NextSplit ==
    \/ SplitWindow
    \/ SplitLong
    \/ SplitShort

SpecSplit == InitSplit /\ [][NextSplit]_vars

\* ================================================================ claims
\* the window a swept split was built with
SplitWindowOf(in) ==
    CASE in.mode = "long" -> _max_interval_for_granularity(in.g)
      [] in.mode = "short" -> max_interval
      [] OTHER -> in.w

IntervalLen(iv) == iv.timestamp_end - iv.timestamp_start

\* C1: for total_start <= total_end and a window w > 0 the intervals built
\* are ascending and contiguous, run from total_start to total_end, each
\* have a length in 1..w, all but possibly the last exactly w, and there are
\* none when total_start = total_end; split(0, 25, 10) is
\* [(0,10), (10,20), (20,25)]
C1_IntervalsPartitionRange ==
    (split_out.done /\ split_in.start <= split_in.end) =>
        LET ivs == split_out.intervals
            n == Len(ivs)
            w == SplitWindowOf(split_in)
        IN  /\ (split_in.start = split_in.end) => n = 0
            /\ (split_in.start < split_in.end) =>
                    /\ n >= 1
                    /\ ivs[1].timestamp_start = split_in.start
                    /\ ivs[n].timestamp_end = split_in.end
            /\ \A i \in 1..n : IntervalLen(ivs[i]) \in 1..w
            /\ \A i \in 1..(n - 1) :
                    /\ ivs[i].timestamp_end = ivs[i + 1].timestamp_start
                    /\ ivs[i].timestamp_start < ivs[i + 1].timestamp_start
                    /\ IntervalLen(ivs[i]) = w
            /\ (split_in = SplitExample) =>
                    ivs = <<TimeInterval(0, 10), TimeInterval(10, 20),
                            TimeInterval(20, 25)>>

\* a range split into three or more intervals, the last one shorter
C1_Witness ==
    /\ split_out.done
    /\ split_in.mode = "window"
    /\ Len(split_out.intervals) >= 3
    /\ IntervalLen(split_out.intervals[Len(split_out.intervals)]) < split_in.w

\* 1 / requests_per_sec_max for client c, in ticks
Period(c) == TicksPerSec \div rate[c]

\* C2: every request after the first through a client is issued no earlier
\* than 1/R after the previous one completed, and N requests take at least
\* (N-1)/R from the first being issued to the last completing
C2_RateNeverExceeded ==
    /\ (call.client # "" /\ call.prev # NoneTime) =>
            call.at + call.slept >= call.prev + Period(call.client)
    /\ \A c \in Clients :
            cnt[c] >= 1 => last[c] - first[c] >= (cnt[c] - 1) * Period(c)

\* a third request through a client, held back by the throttler
C2_Witness ==
    /\ call.client # ""
    /\ cnt[call.client] >= 3
    /\ call.slept > 0
    /\ call.resp.kind = "network_error"

\* C9: the throttler does not block when there is no earlier request or when
\* the time since it completed is at least 1/R, and otherwise blocks for
\* exactly 1/R less the true elapsed time
C9_ThrottlerWaitsExactRemainder ==
    call.client # "" =>
        LET elapsed == call.at - call.prev
        IN  call.slept =
                IF call.prev = NoneTime \/ elapsed >= Period(call.client)
                THEN 0
                ELSE Period(call.client) - elapsed

\* the last operation went through the transport once and handed back a pair
Returned == ret.sent = 1 /\ ret.kind = "return"

Answered2xx ==
    call.resp.kind = "response" /\ call.resp.status \in 200..299

AnsweredNon2xx ==
    call.resp.kind = "response" /\ call.resp.status \notin 200..299

\* C5 as stated: exactly one slot of the pair request returns is non-null
C5_ExactlyOneSlot ==
    Returned => ((ret.value = PyNone) # (ret.error = PyNone))

\* C5 as amended: never are both slots of the pair non-null, and both are
\* null exactly for a 2xx response whose body is empty or the JSON null
C5_AtMostOneSlot ==
    Returned =>
        /\ ret.value = PyNone \/ ret.error = PyNone
        /\ (ret.value = PyNone /\ ret.error = PyNone)
                <=> (Answered2xx /\ call.resp.text \in {"", "null"})

\* a 2xx response with an empty body, returned as (None, None)
C5_Witness ==
    /\ Returned
    /\ Answered2xx
    /\ call.resp.text = ""
    /\ ret.value = PyNone
    /\ ret.error = PyNone

\* the message field of a body, when it is a JSON object that has one
MessageOf(text) ==
    IF text = "{\"message\":\"not found\"}" THEN "not found" ELSE ""

\* C6: a non-2xx answer is returned as (None, error), the error carrying the
\* status code and the body's message, which is "" when the body has no
\* message field or is not JSON
C6_HttpErrorCarriesStatusAndMessage ==
    (ret.sent = 1 /\ AnsweredNon2xx) =>
        /\ ret.kind = "return"
        /\ ret.value = PyNone
        /\ ret.error # PyNone
        /\ ret.error.status = call.resp.status
        /\ ret.error.message = MessageOf(call.resp.text)

\* the value a JSON body stands for
ValueOf(text) ==
    CASE text = "[1]" -> PyList(<<1>>)
      [] text = "[2,3]" -> PyList(<<2, 3>>)
      [] text = "{}" -> PyDict({})
      [] text = "{\"message\":\"not found\"}" ->
            PyDict({<<"message", "not found">>})
      [] OTHER -> PyNone

\* C10: a 2xx answer never fills the error slot; it is returned as
\* (None, None) when the body is empty and as (the parsed body, None) when
\* the body is a JSON document
C10_SuccessReturnsParsedBody ==
    (ret.sent = 1 /\ Answered2xx) =>
        /\ ret.error = PyNone
        /\ call.resp.text = "" => (ret.kind = "return" /\ ret.value = PyNone)
        /\ call.resp.text \notin {"", "<html>"} =>
                (ret.kind = "return" /\ ret.value = ValueOf(call.resp.text))

\* a 204 answer with a JSON list for a body, returned as that list
C10_Witness ==
    /\ Returned
    /\ call.resp.kind = "response"
    /\ call.resp.status = 204
    /\ call.resp.text = "[2,3]"
    /\ ret.value = PyList(<<2, 3>>)
    /\ ret.error = PyNone

\* something went wrong in the last operation: a bad time range, a network
\* failure, a non-2xx answer, a body that is not JSON
Failed ==
    \/ ret.range \in {"none", "inverted"}
    \/ /\ ret.sent >= 1
       /\ \/ call.resp.kind = "network_error"
          \/ AnsweredNon2xx
          \/ call.resp.text = "<html>"

\* C7: every operation ends by returning a pair, no failure escapes as an
\* exception, and every failure fills the error slot
C7_EveryOperationReturnsPair ==
    /\ ret.kind # "raise"
    /\ (ret.kind = "return" /\ Failed) => ret.error # PyNone

\* C8: a time-range operation given start after end, or neither bound,
\* returns an error in the error slot without issuing any request
C8_InvalidRangeIsCallerError ==
    ret.range \in {"none", "inverted"} =>
        /\ ret.kind = "return"
        /\ ret.error # PyNone
        /\ ret.sent = 0

\* the transport handed back (None, error) for the i-th request of the load
ErrorAt(i) ==
    /\ loadLog[i].result.kind = "return"
    /\ loadLog[i].result.error # PyNone

\* the transport handed back (a list, None) for the i-th request of the load
ListAt(i) ==
    /\ loadLog[i].result.kind = "return"
    /\ loadLog[i].result.error = PyNone
    /\ loadLog[i].result.value.t = "list"

\* C3: when the request for interval k is the first to return an error, the
\* load returns (None, that error) with nothing of intervals 1..k-1 in it,
\* and no request follows the one for interval k
C3_AbortOnFirstError ==
    \A k \in 1..Len(loadLog) :
        ErrorAt(k) =>
            /\ k = Len(loadLog)
            /\ pc = "idle"
            /\ loadLog[k].fromTs = intervals[k].timestamp_start
            /\ loadLog[k].toTs = intervals[k].timestamp_end
            /\ ret.kind = "return"
            /\ ret.value = PyNone
            /\ ret.error = loadLog[k].result.error
            /\ ret.sent = k

\* of three intervals the first gave a non-empty list and the second failed
C3_Witness ==
    /\ Len(intervals) = 3
    /\ Len(loadLog) = 2
    /\ ListAt(1)
    /\ loadLog[1].result.value.items # <<>>
    /\ ErrorAt(2)
    /\ ret.kind = "return"

\* the items of the first n results of the load, one result after the other
RECURSIVE Concatenated(_)
Concatenated(n) ==
    IF n = 0 THEN <<>>
    ELSE Concatenated(n - 1) \o loadLog[n].result.value.items

\* C4: the requests of a load are issued one per interval, in ascending
\* interval order, each after the one before it has completed and the
\* throttler has let it go; when every one of them hands back a sequence the
\* load returns their concatenation in that order, with no error. (A load
\* whose granularity has no value raises before its first request: no
\* transport call of it is made, none succeeds.)
C4_SequentialConcatenation ==
    /\ Len(loadLog) <= Len(intervals)
    /\ \A i \in 1..Len(loadLog) :
            /\ loadLog[i].fromTs = intervals[i].timestamp_start
            /\ loadLog[i].toTs = intervals[i].timestamp_end
    /\ Len(loadLog) >= 2 =>
            call.at + call.slept >= call.prev + Period("pub")
    /\ (\A i \in 1..Len(loadLog) : ListAt(i)) =>
            /\ (Len(loadLog) < Len(intervals) /\ ret.kind # "raise")
                    => pc = "loading"
            /\ (Len(loadLog) = Len(intervals) /\ ret.op # "none") =>
                    /\ pc = "idle"
                    /\ ret.kind = "return"
                    /\ ret.value = PyList(Concatenated(Len(loadLog)))
                    /\ ret.error = PyNone
                    /\ ret.sent = Len(intervals)

\* three intervals loaded, their lists differing, and the load returned
C4_Witness ==
    /\ Len(intervals) = 3
    /\ Len(loadLog) = 3
    /\ \A i \in 1..3 : ListAt(i)
    /\ loadLog[1].result.value.items = <<1>>
    /\ loadLog[2].result.value.items = <<2, 3>>
    /\ ret.kind = "return"
    /\ ret.value = PyList(<<1, 2, 3, 1>>)


\* the window the claim states for a granularity, in seconds
ClaimedWindow(g) ==
    (CASE g = "5m" -> 7
       [] g = "15m" -> 14
       [] g = "30m" -> 31
       [] g = "hour" -> 90
       [] g = "day" -> 1095
       [] g = "week" -> 1825
       [] g = "month" -> 3650
       [] OTHER -> 7) * 86400

Span(entry) == entry.toTs - entry.fromTs

\* C11: every request issued by load_long_energy with granularity g has
\* toTs - fromTs at most the window of g (7, 14, 31, 90, 3*365, 5*365, 10*365
\* days for 5m, 15m, 30m, hour, day, week, month; 7 days for anything else),
\* and every request issued by load_short_energy has toTs - fromTs at most
\* 12 hours.
C11_RequestSpanWithinWindow ==
    \A k \in 1..Len(loadLog) :
        /\ ret.op = "load_long_energy"
              => Span(loadLog[k]) <= ClaimedWindow(loadLog[k].granularity)
        /\ ret.op = "load_short_energy" => Span(loadLog[k]) <= 43200

\* a long load by month over a range longer than ten years has sent its two
\* requests, the first over the whole window, the second over the rest
C11_Witness ==
    /\ ret.op = "load_long_energy"
    /\ granularity = "month"
    /\ Len(loadLog) = 2
    /\ pc = "idle"
    /\ Span(loadLog[1]) = 315360000
    /\ Span(loadLog[2]) = 40000

\* C12: a request attempt through a client, whatever its outcome, leaves
\* that client's last-request timestamp at the time the attempt completed;
\* the timestamp of a client never decreases; and a step in which a client
\* makes no attempt leaves its timestamp as it was, whatever the other
\* client does.
C12_TimestampFollowsEveryAttempt ==
    [][\A c \in Clients :
            /\ cnt'[c] # cnt[c] => last'[c] = now'
            /\ cnt'[c] = cnt[c] => last'[c] = last[c]
            /\ last'[c] >= last[c]]_vars

\* the ops client has just completed an attempt that failed on the network,
\* later than the last attempt of the public client, which made one too
C12_Witness ==
    /\ call.client = "ops"
    /\ call.resp.kind = "network_error"
    /\ last["ops"] = now
    /\ cnt["pub"] >= 1
    /\ last["pub"] # NoneTime
    /\ last["pub"] < last["ops"]
    /\ call.prev # NoneTime


====
